---- MODULE Spec2Model ----
(***************************************************************************)
(* A model of src/app.py: the in-memory response cache of                  *)
(* fetch_data_from_api, the chart renderer create_chart_image and the      *)
(* Flask endpoints that call them.                                         *)
(*                                                                         *)
(* Request threads run concurrently (Flask serves each request on its own  *)
(* thread).  A thread is interleaved with the others where it blocks:     *)
(* in time.sleep(1) and in requests.get(url).  The code between two       *)
(* blocking points is one step; so the store CACHE[cache_key] = (data,     *)
(* time.time()) reads the clock and writes the entry in one step.  The     *)
(* clock never moves back.                                                 *)
(***************************************************************************)
EXTENDS Integers, Sequences, FiniteSets, TLC

---------------------------------------------------------------------------
(* Bounds of the model *)

NumThreads == 2
MaxWindows == 1
MaxEndpoints == 2
MaxFigures == 1
MaxPoints == 3

(* Program constants *)

CACHE_EXPIRATION_TIME == 300

COINGECKO_BASE_URL == "https://api.coingecko.com/api/v3"

---------------------------------------------------------------------------
(* Inputs *)

Threads == 1 .. NumThreads

\* values of time.time(): each multiple of the window and the second after it
\* (a sleep of one second later)
TimePoints == {k * CACHE_EXPIRATION_TIME + d : k \in 0 .. MaxWindows, d \in {0, 1}}

MaxNow == CHOOSE t \in TimePoints : \A u \in TimePoints : u <= t

ChartEndpoints == {"get_coin_price_chart", "get_coin_market_cap_chart"}

Endpoints == {"get_global_market_data"} \cup ChartEndpoints

CoinIds == {"bitcoin"}

\* the <days> segment of the request path, as its characters
DaysSegments == { <<"7">>, <<"1", "3">>, <<"m", "a", "x">>, <<"-", "1">> }

NoSegment == << >>

\* upstream series of [epoch-millis, value] pairs
SERIES_PRICES == << <<1000, 42>>, <<2000, 43>> >>

SERIES_CAPS == << <<1000, 800>>, <<2000, 810>> >>

NoMsg == <<"", 0>>

\* parsed JSON objects: the fields present, the value of `error`, the two series
Json(fields, error, prices, caps) ==
    [fields |-> fields, error |-> error, prices |-> prices, market_caps |-> caps]

BLANK == Json({}, NoMsg, << >>, << >>)

GLOBAL_OK == Json({"data"}, NoMsg, << >>, << >>)

CHART_OK == Json({"prices", "market_caps"}, NoMsg, SERIES_PRICES, SERIES_CAPS)

CHART_EMPTY == Json({"prices", "market_caps"}, NoMsg, << >>, << >>)

UPSTREAM_ERR == Json({"error"}, <<"coin not found", 0>>, << >>, << >>)

UpstreamPayloads(ep) ==
    IF ep \in ChartEndpoints
    THEN {CHART_OK, CHART_EMPTY, BLANK, UPSTREAM_ERR}
    ELSE {GLOBAL_OK, BLANK, UPSTREAM_ERR}

\* what requests.get(url) can produce
HttpResponse(status, parsable, json) ==
    [kind |-> "http", status |-> status, parsable |-> parsable, json |-> json]

CONN_ERROR == [kind |-> "conn_error", status |-> 0, parsable |-> FALSE, json |-> BLANK]

NoResp == [kind |-> "none", status |-> 0, parsable |-> FALSE, json |-> BLANK]

ErrorStatuses == {429, 500}

Responses(ep) ==
    {HttpResponse(200, TRUE, d) : d \in UpstreamPayloads(ep)}
        \cup {HttpResponse(200, FALSE, BLANK)}
        \cup {HttpResponse(s, FALSE, BLANK) : s \in ErrorStatuses}
        \cup {CONN_ERROR}

\* what matplotlib can raise while drawing
RenderFaults == {"none", "ValueError", "RuntimeError"}

\* the [timestamp in ms, value] points a series is made of
Points == { <<1000, 42>>, <<2000, 43>>, <<3000, 41>> }

\* the series create_chart_image is called with directly: every length from
\* none to MaxPoints
RenderSeries == UNION {[1 .. n -> Points] : n \in 0 .. MaxPoints}

---------------------------------------------------------------------------
(* State *)

VARIABLES
    CACHE,      \* the dict CACHE: cache_key -> (data, timestamp)
    now,        \* the value time.time() returns
    pc,         \* where each request thread is
    req,        \* the request a thread is serving
    last,       \* the request that completed last and what it did, until its
                \* response is sent
    called,     \* the endpoints the clients call in this run
    figures,    \* the figures open in pyplot's registry
    rcall       \* the last direct call of create_chart_image and its outcome

vars == <<CACHE, now, pc, req, last, called, figures, rcall>>

---------------------------------------------------------------------------
(* Python values and the URL converter *)

PyInt(n) == [t |-> "int", v |-> <<n>>]

PyStr(chars) == [t |-> "str", v |-> chars]

\* Python's ==: an int never equals a str
PyEq(a, b) == a.t = b.t /\ a.v = b.v

DigitChars == {"0", "1", "2", "3", "4", "5", "6", "7", "8", "9"}

DigitVal(c) ==
    CASE c = "0" -> 0 [] c = "1" -> 1 [] c = "2" -> 2 [] c = "3" -> 3
      [] c = "4" -> 4 [] c = "5" -> 5 [] c = "6" -> 6 [] c = "7" -> 7
      [] c = "8" -> 8 [] c = "9" -> 9

RECURSIVE DecimalValue(_)
DecimalValue(seg) ==
    IF Len(seg) = 0
    THEN 0
    ELSE DecimalValue(SubSeq(seg, 1, Len(seg) - 1)) * 10 + DigitVal(seg[Len(seg)])

NoMatch == [matched |-> FALSE, days |-> PyInt(0)]

\* the <int:days> converter of the two chart routes: digits only, then int()
IntConverter(seg) ==
    IF Len(seg) > 0 /\ \A i \in 1 .. Len(seg) : seg[i] \in DigitChars
    THEN [matched |-> TRUE, days |-> PyInt(DecimalValue(seg))]
    ELSE NoMatch

\* the list both chart endpoints test `days` against
ACCEPTED_DAYS ==
    << PyInt(1), PyInt(7), PyInt(14), PyInt(30), PyInt(90), PyInt(180), PyInt(365),
       PyStr(<<"m", "a", "x">>) >>

\* a range test in place of the list: any day count from 1 to 365 passes
DaysAccepted_Range(days) == days.t = "int" /\ days.v[1] >= 1 /\ days.v[1] <= 365

DaysAccepted(days) == \E i \in 1 .. Len(ACCEPTED_DAYS) : PyEq(days, ACCEPTED_DAYS[i])

\* the cache_key each endpoint builds
CacheKey(ep, coin, days) ==
    CASE ep = "get_global_market_data" -> <<"global_data">>
      [] ep = "get_coin_price_chart" -> <<"price_chart", coin, days.v>>
      [] ep = "get_coin_market_cap_chart" -> <<"market_cap_chart", coin, days.v>>

\* Python truthiness of the cache_key argument
Truthy(key) == Len(key) > 0

---------------------------------------------------------------------------
(* fetch_data_from_api *)

\* how a call of fetch_data_from_api ends: a returned value or a raised exception
Returned(data) == [kind |-> "return", exc |-> "none", msg |-> NoMsg, data |-> data]

Raised(exc, msg) == [kind |-> "raise", exc |-> exc, msg |-> msg, data |-> BLANK]

NoFetch == [kind |-> "none", exc |-> "none", msg |-> NoMsg, data |-> BLANK]

RATE_LIMIT_MSG == <<"API Hiz Limiti Asildi. Lutfen bir sure sonra tekrar deneyin.", 0>>

RATE_LIMIT_DICT == Json({"error"}, RATE_LIMIT_MSG, << >>, << >>)

HttpErrorMsg(status) == <<"API istegi sirasinda HTTP hatasi olustu", status>>

CONNECTION_MSG == <<"API'ye baglanirken bir hata olustu. Internet baglantinizi kontrol edin.", 0>>

UNEXPECTED_MSG == <<"Beklenmedik bir hata olustu", 0>>

\* the comparison turned round: an entry counts as fresh once the window is over
IsFresh_Reversed(timestamp, t) == (t - timestamp) > CACHE_EXPIRATION_TIME

\* <= for <: an entry aged exactly the window still counts as fresh
IsFresh_Inclusive(timestamp, t) == (t - timestamp) <= CACHE_EXPIRATION_TIME

\* no entry ever counts as fresh: every fetch goes to the network
IsFresh_Never(timestamp, t) == FALSE

\* the expiry test of a cached timestamp
IsFresh(timestamp, t) == (t - timestamp) < CACHE_EXPIRATION_TIME

\* the cache lookup that opens fetch_data_from_api
CacheHit(cache, cache_key, t) ==
    /\ Truthy(cache_key)
    /\ cache_key \in DOMAIN cache
    /\ IsFresh(cache[cache_key].timestamp, t)

\* a store in two halves, of which only the first is done: the new data lands
\* beside the timestamp of the entry that was there
CacheStore_Torn(cache, cache_key, data, t) ==
    [k \in DOMAIN cache \cup {cache_key} |->
        IF k = cache_key
        THEN [data |-> data,
              timestamp |-> IF k \in DOMAIN cache THEN cache[k].timestamp ELSE t]
        ELSE cache[k]]

\* CACHE rebound to a new dict that holds the stored entry alone
CacheStore_Clobber(cache, cache_key, data, t) ==
    [k \in {cache_key} |-> [data |-> data, timestamp |-> t]]

\* CACHE[cache_key] = (data, time.time())
CacheStore(cache, cache_key, data, t) ==
    [k \in DOMAIN cache \cup {cache_key} |->
        IF k = cache_key THEN [data |-> data, timestamp |-> t] ELSE cache[k]]

\* response.raise_for_status()
RaisesForStatus(status) == status >= 400 /\ status < 600

\* an HTTP error other than 429 is swallowed: the call returns an empty object
FetchComplete_Swallows(cache, cache_key, resp, t) ==
    IF resp.kind = "conn_error"
    THEN [cache |-> cache, out |-> Raised("ConnectionError", CONNECTION_MSG)]
    ELSE IF RaisesForStatus(resp.status)
    THEN IF resp.status = 429
         THEN [cache |-> cache, out |-> Returned(RATE_LIMIT_DICT)]
         ELSE [cache |-> cache, out |-> Returned(BLANK)]
    ELSE IF ~resp.parsable
    THEN [cache |-> cache, out |-> Raised("Exception", UNEXPECTED_MSG)]
    ELSE [cache |-> IF Truthy(cache_key)
                    THEN CacheStore(cache, cache_key, resp.json, t)
                    ELSE cache,
          out |-> Returned(resp.json)]

\* the 429 branch also writes the error object into the cache
FetchComplete_Caches429(cache, cache_key, resp, t) ==
    IF resp.kind = "conn_error"
    THEN [cache |-> cache, out |-> Raised("ConnectionError", CONNECTION_MSG)]
    ELSE IF RaisesForStatus(resp.status)
    THEN IF resp.status = 429
         THEN [cache |-> CacheStore(cache, cache_key, RATE_LIMIT_DICT, t),
               out |-> Returned(RATE_LIMIT_DICT)]
         ELSE [cache |-> cache,
               out |-> Raised("ConnectionError", HttpErrorMsg(resp.status))]
    ELSE IF ~resp.parsable
    THEN [cache |-> cache, out |-> Raised("Exception", UNEXPECTED_MSG)]
    ELSE [cache |-> IF Truthy(cache_key)
                    THEN CacheStore(cache, cache_key, resp.json, t)
                    ELSE cache,
          out |-> Returned(resp.json)]

\* a failed call falls back on the entry the cache still holds, however old
FetchComplete_Fallback(cache, cache_key, resp, t) ==
    IF resp.kind = "conn_error"
    THEN [cache |-> cache,
          out |-> IF cache_key \in DOMAIN cache
                  THEN Returned(cache[cache_key].data)
                  ELSE Raised("ConnectionError", CONNECTION_MSG)]
    ELSE IF RaisesForStatus(resp.status)
    THEN IF resp.status = 429
         THEN [cache |-> cache, out |-> Returned(RATE_LIMIT_DICT)]
         ELSE [cache |-> cache,
               out |-> Raised("ConnectionError", HttpErrorMsg(resp.status))]
    ELSE IF ~resp.parsable
    THEN [cache |-> cache, out |-> Raised("Exception", UNEXPECTED_MSG)]
    ELSE [cache |-> IF Truthy(cache_key)
                    THEN CacheStore(cache, cache_key, resp.json, t)
                    ELSE cache,
          out |-> Returned(resp.json)]

\* the rest of fetch_data_from_api once requests.get has ended with `resp`:
\* the value or exception it ends with, and the cache it leaves
FetchComplete(cache, cache_key, resp, t) ==
    IF resp.kind = "conn_error"
    THEN [cache |-> cache, out |-> Raised("ConnectionError", CONNECTION_MSG)]
    ELSE IF RaisesForStatus(resp.status)
    THEN IF resp.status = 429
         THEN [cache |-> cache, out |-> Returned(RATE_LIMIT_DICT)]
         ELSE [cache |-> cache,
               out |-> Raised("ConnectionError", HttpErrorMsg(resp.status))]
    ELSE IF ~resp.parsable
    THEN [cache |-> cache, out |-> Raised("Exception", UNEXPECTED_MSG)]
    ELSE [cache |-> IF Truthy(cache_key)
                    THEN CacheStore(cache, cache_key, resp.json, t)
                    ELSE cache,
          out |-> Returned(resp.json)]

\* a failed call sent again: the function goes back to time.sleep(1)
AfterFetch_Retry(out) == IF out.kind = "raise" THEN "sleeping" ELSE "done"

\* where fetch_data_from_api goes once the try statement has run: every
\* branch of it ends in a return or a raise, none loops back to requests.get
AfterFetch(out) == "done"

---------------------------------------------------------------------------
(* create_chart_image *)

NotRendered == -1

NoImage == <<"", 0>>

\* draws the line chart; an exception of matplotlib leaves it before plt.close
\* `open` is the figure of plt.subplots that the call leaves open
create_chart_image(dates, values, fault) ==
    IF fault # "none"
    THEN [raised |-> fault, image |-> NoImage, open |-> 1]
    ELSE [raised |-> "none", image |-> <<"png;base64", Len(values)>>, open |-> 0]

---------------------------------------------------------------------------
(* The endpoints, from the value or exception fetch_data_from_api ended with *)

Body(fields, error) == [fields |-> fields, error |-> error]

ErrorBody(msg) == Body({"error"}, msg)

Response(status, body, rendered) ==
    [status |-> status, body |-> body, rendered |-> rendered]

\* jsonify(data) of a fetched object that has an `error` field
Echo(data) == Body(data.fields, data.error)

GLOBAL_FAILED_MSG == <<"Global piyasa verileri cekilirken bir hata olustu.", 0>>

CHART_FAILED_MSG == <<"Grafik olusturulurken bir hata olustu.", 0>>

NO_DATA_MSG == <<"No data available", 0>>

INVALID_DAYS_MSG == <<"Gecersiz gun sayisi. 1, 7, 14, 30, 90, 180, 365 veya 'max' olmali.", 0>>

RenderFaultMsg(fault) == <<fault, 0>>

\* the status left off `return jsonify(data), 500`: an error object goes out as 200
get_global_market_data_NoStatus(out) ==
    IF out.kind = "raise"
    THEN IF out.exc = "ConnectionError"
         THEN Response(500, ErrorBody(out.msg), NotRendered)
         ELSE Response(500, ErrorBody(GLOBAL_FAILED_MSG), NotRendered)
    ELSE IF "error" \in out.data.fields
    THEN Response(200, Echo(out.data), NotRendered)
    ELSE IF "data" \in out.data.fields
    THEN Response(200, Body({"total_market_cap_usd", "total_volume_24h_usd"}, NoMsg),
                  NotRendered)
    ELSE Response(500, ErrorBody(GLOBAL_FAILED_MSG), NotRendered)

get_global_market_data(out) ==
    IF out.kind = "raise"
    THEN IF out.exc = "ConnectionError"
         THEN Response(500, ErrorBody(out.msg), NotRendered)
         ELSE Response(500, ErrorBody(GLOBAL_FAILED_MSG), NotRendered)
    ELSE IF "error" \in out.data.fields
    THEN Response(500, Echo(out.data), NotRendered)
    ELSE IF "data" \in out.data.fields
    THEN Response(200, Body({"total_market_cap_usd", "total_volume_24h_usd"}, NoMsg),
                  NotRendered)
    ELSE Response(500, ErrorBody(GLOBAL_FAILED_MSG), NotRendered)

\* market_data.get('prices') / market_data.get('market_caps'); None reads as empty
SeriesOf(ep, data) ==
    IF ep = "get_coin_price_chart"
    THEN IF "prices" \in data.fields THEN data.prices ELSE << >>
    ELSE IF "market_caps" \in data.fields THEN data.market_caps ELSE << >>

\* the test left out: an empty series goes on to the renderer
NoData_Never(series) == FALSE

\* `if not prices` / `if not market_caps`
NoData(series) == Len(series) = 0

Dates(series) == [i \in 1 .. Len(series) |-> series[i][1] \div 1000]

Values(series) == [i \in 1 .. Len(series) |-> series[i][2]]

\* the body of get_coin_price_chart and get_coin_market_cap_chart after the
\* check of `days`
ChartHandler(ep, out, fault) ==
    IF out.kind = "raise"
    THEN IF out.exc = "ConnectionError"
         THEN Response(500, ErrorBody(out.msg), NotRendered)
         ELSE Response(500, ErrorBody(CHART_FAILED_MSG), NotRendered)
    ELSE IF "error" \in out.data.fields
    THEN Response(500, Echo(out.data), NotRendered)
    ELSE LET series == SeriesOf(ep, out.data)
         IN  IF NoData(series)
             THEN Response(404, ErrorBody(NO_DATA_MSG), NotRendered)
             ELSE LET chart == create_chart_image(Dates(series), Values(series), fault)
                  IN  IF chart.raised = "none"
                      THEN Response(200, Body({"chart"}, NoMsg), Len(Values(series)))
                      ELSE IF chart.raised = "ValueError"
                      THEN Response(500, ErrorBody(RenderFaultMsg(chart.raised)),
                                    Len(Values(series)))
                      ELSE Response(500, ErrorBody(CHART_FAILED_MSG), Len(Values(series)))

\* the endpoint gets as far as calling create_chart_image
Renders(ep, out) ==
    /\ ep \in ChartEndpoints
    /\ out.kind = "return"
    /\ "error" \notin out.data.fields
    /\ ~NoData(SeriesOf(ep, out.data))

FaultsOf(ep, out) == IF Renders(ep, out) THEN RenderFaults ELSE {"none"}

\* the figures the endpoint's call of create_chart_image leaves open
LeftOpen(ep, out, fault) ==
    IF Renders(ep, out)
    THEN LET series == SeriesOf(ep, out.data)
         IN  create_chart_image(Dates(series), Values(series), fault).open
    ELSE 0

Handler(ep, out, fault) ==
    IF ep = "get_global_market_data"
    THEN get_global_market_data(out)
    ELSE ChartHandler(ep, out, fault)

\* Flask's answer to a path no route matches
ROUTER_NOT_FOUND == Response(404, Body({}, <<"Not Found", 0>>), NotRendered)

INVALID_DAYS == Response(400, ErrorBody(INVALID_DAYS_MSG), NotRendered)

---------------------------------------------------------------------------
(* The request threads *)

NoKey == << >>

\* `timestamp` is the local of fetch_data_from_api: the time of the entry it
\* found for its key, if it found one
NoTimestamp == -1

\* `calls` counts the requests.get calls the running fetch_data_from_api has
\* sent
NoReq ==
    [ep |-> "none", seg |-> NoSegment, key |-> NoKey, timestamp |-> NoTimestamp,
     calls |-> 0]

\* what a completed request did and answered; `replaced` is the timestamp of
\* the entry its key had just before a network call of it ended
Completed(p, ep, seg, dispatched, gateway, key, net, resp, fetch, fault, response) ==
    [thread |-> p, ep |-> ep, seg |-> seg, dispatched |-> dispatched,
     gateway |-> gateway, key |-> key, net |-> net, resp |-> resp, fetch |-> fetch,
     fault |-> fault, status |-> response.status, body |-> response.body,
     rendered |-> response.rendered, replaced |-> NoTimestamp]

NoLast ==
    Completed(0, "none", NoSegment, FALSE, FALSE, NoKey, 0, NoResp, NoFetch, "none",
              Response(0, Body({}, NoMsg), NotRendered))

\* the first instant at least `d` seconds after t (the clock stops at MaxNow)
Later(t, d) ==
    IF \E u \in TimePoints : u >= t + d
    THEN CHOOSE u \in TimePoints : u >= t + d /\ \A w \in TimePoints : w >= t + d => u <= w
    ELSE MaxNow

\* a direct call of create_chart_image: its arguments and what it ended with
Called(dates, values, fault, chart) ==
    [called |-> TRUE, dates |-> dates, values |-> values, fault |-> fault,
     raised |-> chart.raised, image |-> chart.image]

NoCall ==
    [called |-> FALSE, dates |-> << >>, values |-> << >>, fault |-> "none",
     raised |-> "none", image |-> NoImage]

\* Sending a response touches nothing the threads share, so a completed
\* request is sent before anything else happens.
NoneDone == \A q \in Threads : pc[q] # "done"

Init ==
    /\ called \in {S \in SUBSET Endpoints : Cardinality(S) = MaxEndpoints}
    /\ CACHE = << >>
    /\ now = 0
    /\ pc = [p \in Threads |-> "idle"]
    /\ req = [p \in Threads |-> NoReq]
    /\ last = NoLast
    /\ figures = 0
    /\ rcall = NoCall

\* no route matches the path: Flask answers 404 and calls no endpoint
RouteMiss(p, ep, seg) ==
    /\ NoneDone
    /\ pc[p] = "idle"
    /\ ep \in ChartEndpoints
    /\ ~IntConverter(seg).matched
    /\ pc' = [pc EXCEPT ![p] = "done"]
    /\ last' = Completed(p, ep, seg, FALSE, FALSE, NoKey, 0, NoResp, NoFetch, "none",
                         ROUTER_NOT_FOUND)
    /\ UNCHANGED <<CACHE, now, req, called, figures, rcall>>

\* a chart endpoint refuses `days`
RejectDays(p, ep, seg) ==
    /\ NoneDone
    /\ pc[p] = "idle"
    /\ ep \in ChartEndpoints
    /\ IntConverter(seg).matched
    /\ ~DaysAccepted(IntConverter(seg).days)
    /\ pc' = [pc EXCEPT ![p] = "done"]
    /\ last' = Completed(p, ep, seg, TRUE, FALSE, NoKey, 0, NoResp, NoFetch, "none",
                         INVALID_DAYS)
    /\ UNCHANGED <<CACHE, now, req, called, figures, rcall>>

\* the endpoint gets as far as fetch_data_from_api
ReachesFetch(ep, seg) ==
    \/ ep \notin ChartEndpoints /\ seg = NoSegment
    \/ /\ ep \in ChartEndpoints
       /\ IntConverter(seg).matched
       /\ DaysAccepted(IntConverter(seg).days)

KeyOf(ep, coin, seg) ==
    CacheKey(ep, coin, IF ep \in ChartEndpoints THEN IntConverter(seg).days ELSE PyInt(0))

\* the endpoint calls fetch_data_from_api, which answers from CACHE; the
\* endpoint shapes the data and returns
ServeFromCache(p, ep, coin, seg, fault) ==
    /\ NoneDone
    /\ pc[p] = "idle"
    /\ ReachesFetch(ep, seg)
    /\ LET key == KeyOf(ep, coin, seg)
       IN  /\ CacheHit(CACHE, key, now)
           /\ LET out == Returned(CACHE[key].data)
              IN  /\ fault \in FaultsOf(ep, out)
                  /\ figures + LeftOpen(ep, out, fault) <= MaxFigures
                  /\ figures' = figures + LeftOpen(ep, out, fault)
                  /\ last' = Completed(p, ep, seg, TRUE, TRUE, key, 0, NoResp, out,
                                         fault, Handler(ep, out, fault))
    /\ pc' = [pc EXCEPT ![p] = "done"]
    /\ UNCHANGED <<CACHE, now, req, called, rcall>>

\* the endpoint calls fetch_data_from_api, which finds no fresh entry and
\* goes on to time.sleep(1)
CacheMiss(p, ep, coin, seg) ==
    /\ NoneDone
    /\ pc[p] = "idle"
    /\ ReachesFetch(ep, seg)
    /\ LET key == KeyOf(ep, coin, seg)
       IN  /\ ~CacheHit(CACHE, key, now)
           /\ req' = [req EXCEPT ![p] =
                        [ep |-> ep, seg |-> seg, key |-> key,
                         timestamp |-> IF Truthy(key) /\ key \in DOMAIN CACHE
                                       THEN CACHE[key].timestamp
                                       ELSE NoTimestamp,
                         calls |-> 0]]
    /\ pc' = [pc EXCEPT ![p] = "sleeping"]
    /\ UNCHANGED <<CACHE, now, last, called, figures, rcall>>

\* time.sleep(1) ends and requests.get(url) is sent; it has no timeout
Sleep(p) ==
    /\ NoneDone
    /\ pc[p] = "sleeping"
    /\ now' = Later(now, 1)
    /\ req' = [req EXCEPT ![p].calls = @ + 1]
    /\ pc' = [pc EXCEPT ![p] = "waiting"]
    /\ UNCHANGED <<CACHE, last, called, figures, rcall>>

\* requests.get ends with `resp`; fetch_data_from_api and the endpoint run on
\* to the response
Respond(p, resp, fault) ==
    /\ NoneDone
    /\ pc[p] = "waiting"
    /\ resp \in Responses(req[p].ep)
    /\ LET done == FetchComplete(CACHE, req[p].key, resp, now)
       IN  /\ fault \in FaultsOf(req[p].ep, done.out)
           /\ figures + LeftOpen(req[p].ep, done.out, fault) <= MaxFigures
           /\ figures' = IF AfterFetch(done.out) = "done"
                         THEN figures + LeftOpen(req[p].ep, done.out, fault)
                         ELSE figures
           /\ CACHE' = done.cache
           /\ pc' = [pc EXCEPT ![p] = AfterFetch(done.out)]
           /\ last' = IF AfterFetch(done.out) = "done"
                      THEN [Completed(p, req[p].ep, req[p].seg, TRUE, TRUE, req[p].key,
                                      req[p].calls, resp, done.out, fault,
                                      Handler(req[p].ep, done.out, fault))
                            EXCEPT !.replaced = IF req[p].key \in DOMAIN CACHE
                                                THEN CACHE[req[p].key].timestamp
                                                ELSE NoTimestamp]
                      ELSE last
    /\ UNCHANGED <<now, req, called, rcall>>

\* the response is sent and the thread takes the next request
Finish(p) ==
    /\ pc[p] = "done"
    /\ pc' = [pc EXCEPT ![p] = "idle"]
    /\ req' = [req EXCEPT ![p] = NoReq]
    /\ last' = NoLast
    /\ UNCHANGED <<CACHE, now, called, figures, rcall>>

\* time passes
Tick ==
    /\ NoneDone
    /\ \E t \in TimePoints : t > now /\ now' = t
    /\ UNCHANGED <<CACHE, pc, req, last, called, figures, rcall>>

SegmentsOf(ep) == IF ep \in ChartEndpoints THEN DaysSegments ELSE {NoSegment}

ThreadStep(p) ==
    \/ \E ep \in called : \E seg \in SegmentsOf(ep) : RouteMiss(p, ep, seg)
    \/ \E ep \in called : \E seg \in SegmentsOf(ep) : RejectDays(p, ep, seg)
    \/ \E ep \in called : \E coin \in CoinIds : \E seg \in SegmentsOf(ep) :
           \E fault \in RenderFaults : ServeFromCache(p, ep, coin, seg, fault)
    \/ \E ep \in called : \E coin \in CoinIds : \E seg \in SegmentsOf(ep) :
           CacheMiss(p, ep, coin, seg)
    \/ Sleep(p)
    \/ Finish(p)

Upstream(p) ==
    \E resp \in Responses(req[p].ep) : \E fault \in RenderFaults : Respond(p, resp, fault)

Next ==
    \/ \E p \in Threads : ThreadStep(p)
    \/ \E p \in Threads : Upstream(p)
    \/ Tick

Spec == Init /\ [][Next]_vars

\* every thread that can run does run; nothing makes the upstream answer
FairSpec == Spec /\ \A p \in Threads : WF_vars(ThreadStep(p))

\* create_chart_image called on its own with the points of `series`
RenderCall(series, fault) ==
    LET chart == create_chart_image(Dates(series), Values(series), fault)
    IN  /\ figures + chart.open <= MaxFigures
        /\ figures' = figures + chart.open
        /\ rcall' = Called(Dates(series), Values(series), fault, chart)
        /\ UNCHANGED <<CACHE, now, pc, req, last, called>>

RenderNext == \E series \in RenderSeries : \E fault \in RenderFaults : RenderCall(series, fault)

\* the renderer alone, called with every series
RenderSpec == Init /\ [][RenderNext]_vars

TypeOK ==
    /\ figures \in 0 .. MaxFigures
    /\ now \in TimePoints
    /\ \A p \in Threads : pc[p] \in {"idle", "sleeping", "waiting", "done"}
    /\ \A k \in DOMAIN CACHE : CACHE[k].timestamp \in TimePoints

---------------------------------------------------------------------------
(* Properties *)

Age(k) == now - CACHE[k].timestamp

\* requests.get ended with a 2xx status and a body that parses
Succeeded(resp) ==
    resp.kind = "http" /\ resp.status >= 200 /\ resp.status < 300 /\ resp.parsable

\* C1: an entry, once stored, stays in the cache with the time of its last
\* store, which never moves back; and while the entry of a key is younger
\* than 300 seconds, a fetch of that key starts no network call and returns
\* exactly the stored data.
C1_FreshEntryServed ==
    [][ /\ \A k \in DOMAIN CACHE' \ DOMAIN CACHE : CACHE'[k].timestamp = now'
        /\ \A k \in DOMAIN CACHE :
              /\ k \in DOMAIN CACHE'
              /\ CACHE'[k].timestamp >= CACHE[k].timestamp
              /\ (CACHE'[k] # CACHE[k] => CACHE'[k].timestamp = now')
              /\ (Age(k) < 300 =>
                    \A p \in Threads :
                       pc[p] = "idle" =>
                          /\ ~(pc'[p] = "sleeping" /\ req'[p].key = k)
                          /\ (pc'[p] = "done" /\ last'.gateway /\ last'.key = k =>
                                 /\ last'.net = 0
                                 /\ last'.fetch = Returned(CACHE[k].data)
                                 /\ CACHE' = CACHE))
      ]_vars

\* a fetch has just been answered from an entry 299 seconds old
C1_Witness ==
    \E p \in Threads :
       /\ pc[p] = "done" /\ last.thread = p
       /\ last.gateway /\ last.net = 0
       /\ last.key \in DOMAIN CACHE
       /\ Age(last.key) = 299
       /\ last.fetch = Returned(CACHE[last.key].data)

\* C2: a fetch is answered from the cache only while the entry of its key is
\* younger than 300 seconds (at exactly 300 seconds it is not); a fetch that
\* went to the network and got a 2xx answer that parses leaves, for its key,
\* an entry with the new data and the time of the store, which is not earlier
\* than the time of the entry it replaces, and returns the new data.
C2_StaleEntryRefetched ==
    [][ \A p \in Threads :
          /\ (pc[p] = "idle" /\ pc'[p] = "done" /\ last'.gateway =>
                /\ last'.key \in DOMAIN CACHE
                /\ Age(last'.key) < 300)
          /\ (pc[p] = "waiting" /\ pc'[p] = "done" =>
                /\ last'.net = 1
                /\ (Succeeded(last'.resp) =>
                      /\ req[p].key \in DOMAIN CACHE'
                      /\ CACHE'[req[p].key] =
                            [data |-> last'.resp.json, timestamp |-> now']
                      /\ (req[p].key \in DOMAIN CACHE =>
                            now' >= CACHE[req[p].key].timestamp)
                      /\ last'.fetch = Returned(last'.resp.json)))
      ]_vars

\* a fetch found an entry aged exactly 300 seconds, went to the network and
\* has stored the answer
C2_Witness ==
    \E p \in Threads :
       /\ pc[p] = "done" /\ last.thread = p
       /\ last.net = 1 /\ Succeeded(last.resp)
       /\ req[p].timestamp # NoTimestamp
       /\ now = req[p].timestamp + 300
       /\ CACHE[last.key] = [data |-> last.resp.json, timestamp |-> now]

\* C3: a fetch whose network call is answered with status 429 returns the
\* error object with the retry-later message and leaves the cache as it was.
C3_RateLimitLeavesCache ==
    [][ \A p \in Threads :
          (pc[p] = "waiting" /\ pc'[p] = "done" /\ last'.resp.status = 429) =>
             /\ CACHE' = CACHE
             /\ last'.fetch.kind = "return"
             /\ "error" \in last'.fetch.data.fields
             /\ last'.fetch.data.error = RATE_LIMIT_MSG
      ]_vars

\* a refresh of a stale entry was answered 429 and the stale entry is still there
C3_Witness ==
    \E p \in Threads :
       /\ pc[p] = "done" /\ last.thread = p
       /\ last.resp.status = 429
       /\ last.key \in DOMAIN CACHE
       /\ CACHE[last.key].timestamp = req[p].timestamp
       /\ Age(last.key) >= 300
       /\ "error" \notin CACHE[last.key].data.fields

\* C4: the cache never holds a fetched object that has an `error` field.
C4_ErrorPayloadNotCached ==
    \A k \in DOMAIN CACHE : "error" \notin CACHE[k].data.fields

\* the accepted set {1, 7, 14, 30, 90, 180, 365, "max"} as <days> path segments
AcceptedSegments ==
    { <<"1">>, <<"7">>, <<"1", "4">>, <<"3", "0">>, <<"9", "0">>, <<"1", "8", "0">>,
      <<"3", "6", "5">>, <<"m", "a", "x">> }

\* C5: a request to a chart endpoint whose `days` is outside the accepted set
\* ends with a 4xx response without calling fetch_data_from_api, without a
\* network call and with the cache unchanged; no such request gets as far as
\* the network path.
C5_InvalidDaysRejected ==
    [][ \A p \in Threads :
          pc[p] = "idle" =>
             /\ (pc'[p] = "sleeping" /\ req'[p].ep \in ChartEndpoints =>
                    req'[p].seg \in AcceptedSegments)
             /\ (pc'[p] = "done" /\ last'.ep \in ChartEndpoints
                    /\ last'.seg \notin AcceptedSegments =>
                    /\ last'.status >= 400 /\ last'.status < 500
                    /\ ~last'.gateway
                    /\ last'.net = 0
                    /\ CACHE' = CACHE)
      ]_vars

\* a chart request for 13 days has been answered 400 by the endpoint itself
C5_Witness ==
    \E p \in Threads :
       /\ pc[p] = "done" /\ last.thread = p
       /\ last.ep \in ChartEndpoints
       /\ last.seg = <<"1", "3">>
       /\ last.dispatched /\ ~last.gateway
       /\ last.status = 400

\* C6: every request to a chart endpoint whose `days` is in the accepted set,
\* "max" included, gets as far as fetch_data_from_api.
C6_AcceptedDaysReachGateway ==
    (last.ep \in ChartEndpoints /\ last.seg \in AcceptedSegments) => last.gateway

\* the series field the endpoint reads is absent from the object, or is empty
SeriesMissingOrEmpty(ep, data) ==
    IF ep = "get_coin_price_chart"
    THEN "prices" \notin data.fields \/ Len(data.prices) = 0
    ELSE "market_caps" \notin data.fields \/ Len(data.market_caps) = 0

\* C7: when fetch_data_from_api gives a chart endpoint an object (one without
\* an `error` field) whose series is missing or empty, the response is the 404
\* "no data" error and create_chart_image is not called; create_chart_image is
\* only ever called with at least one point.
C7_NoDataNeverRendered ==
    /\ (/\ last.ep \in ChartEndpoints
        /\ last.fetch.kind = "return"
        /\ "error" \notin last.fetch.data.fields
        /\ SeriesMissingOrEmpty(last.ep, last.fetch.data))
       => (/\ last.status = 404
           /\ "error" \in last.body.fields
           /\ last.rendered = NotRendered)
    /\ (last.rendered # NotRendered => last.rendered >= 1)

\* a chart endpoint got an object with an empty series and answered 404
C7_Witness ==
    \E p \in Threads :
       /\ pc[p] = "done" /\ last.thread = p
       /\ last.ep \in ChartEndpoints
       /\ last.fetch = Returned(CHART_EMPTY)
       /\ last.status = 404
       /\ last.rendered = NotRendered

\* C8: a thread that waits for the answer of requests.get eventually gets on.
C8_FetchReturns ==
    \A p \in Threads : (pc[p] = "waiting") ~> (pc[p] = "done")

\* requests.get ended in a connection failure, an error status or a body
\* that does not parse
FailedCall(resp) ==
    \/ resp.kind = "conn_error"
    \/ resp.kind = "http" /\ (resp.status < 200 \/ resp.status >= 300 \/ ~resp.parsable)

ShapedFields(ep) ==
    IF ep = "get_global_market_data"
    THEN {"total_market_cap_usd", "total_volume_24h_usd"}
    ELSE {"chart"}

IsSuccess(r) ==
    /\ r.status >= 200 /\ r.status < 300
    /\ r.body.fields = ShapedFields(r.ep)

IsFailure(r) ==
    /\ r.status >= 400
    /\ "error" \in r.body.fields
    /\ r.body.error # NoMsg
    /\ r.body.fields \cap ShapedFields(r.ep) = {}

\* C10: a request that an endpoint has handled ended either as a success (a
\* 2xx response with exactly the shaped fields) or as a failure (a non-2xx
\* response whose body has an `error` message and none of the shaped fields),
\* never both; and it ended in a 5xx response whenever the network call failed
\* or create_chart_image raised.
C10_SuccessOrError ==
    last.dispatched =>
       /\ IsSuccess(last) \/ IsFailure(last)
       /\ ~(IsSuccess(last) /\ IsFailure(last))
       /\ (FailedCall(last.resp) \/ last.fault # "none" =>
              last.status >= 500 /\ last.status < 600)

\* create_chart_image raised and the endpoint answered 500 with an error object
C10_Witness ==
    \E p \in Threads :
       /\ pc[p] = "done" /\ last.thread = p
       /\ last.fault # "none"
       /\ last.rendered >= 1
       /\ last.status = 500
       /\ IsFailure(last)

\* C11: one run of fetch_data_from_api sends requests.get at most once: a
\* cache hit sends none, a miss sends exactly one, and when that one call
\* ends as a rate limit, another HTTP error, a connection error or a body that
\* does not parse, the function ends there, having sent no second call.
C11_AtMostOneCall ==
    /\ \A p \in Threads :
          /\ req[p].calls <= 1
          /\ (pc[p] = "sleeping" => req[p].calls = 0)
          /\ (pc[p] = "waiting" => req[p].calls = 1)
    /\ last.net <= 1
    /\ (last.gateway /\ last.resp = NoResp => last.net = 0)
    /\ (FailedCall(last.resp) =>
          /\ last.net = 1
          /\ \E p \in Threads : pc[p] = "done" /\ last.thread = p)

\* the one call of a fetch ended as HTTP 500 and the fetch was over
C11_Witness ==
    \E p \in Threads :
       /\ pc[p] = "done" /\ last.thread = p
       /\ last.resp.kind = "http" /\ last.resp.status = 500
       /\ last.fetch.kind = "raise"
       /\ req[p].calls = 1
       /\ last.net = 1

\* C12: however the fetches of one key interleave, the entry of the key is
\* never a mix: each step that creates or changes it is the end of one fetch
\* whose network call succeeded, and it leaves exactly the pair (data of that
\* fetch, time of that store); so the entry is at all times the whole pair of
\* the fetch that stored last.
C12_CacheNeverCorrupted ==
    [][ \A k \in DOMAIN CACHE' :
           (k \notin DOMAIN CACHE \/ CACHE'[k] # CACHE[k]) =>
              \E p \in Threads :
                 /\ pc[p] = "waiting" /\ pc'[p] = "done"
                 /\ req[p].key = k
                 /\ last'.thread = p
                 /\ Succeeded(last'.resp)
                 /\ CACHE'[k] = [data |-> last'.resp.json, timestamp |-> now']
      ]_vars

\* two fetches missed the same key at the same time: this one found no entry
\* when it looked, yet its store replaced the entry the other had stored since
C12_Witness ==
    \E p \in Threads :
       /\ pc[p] = "done" /\ last.thread = p
       /\ Succeeded(last.resp)
       /\ req[p].timestamp = NoTimestamp
       /\ last.replaced # NoTimestamp
       /\ CACHE[last.key] = [data |-> last.resp.json, timestamp |-> now]

\* C13 as stated: a store to the entry of a key happens only when the key had
\* no entry or the entry replaced was at least 300 seconds old at the time of
\* the store.
C13_OverwriteOnlyExpired ==
    \A p \in Threads :
       (pc[p] = "done" /\ last.thread = p /\ Succeeded(last.resp)) =>
          \/ last.replaced = NoTimestamp
          \/ now - last.replaced >= CACHE_EXPIRATION_TIME

\* C13, amended: a fetch goes to the network, and so stores, only if at its
\* own lookup the key had no entry or had one at least 300 seconds old (the
\* entry it saw is still that old when it stores); the entry it replaces may
\* be a younger one that another fetch stored in between.
C13_StoreOnlyAfterMiss ==
    \A p \in Threads :
       /\ (pc[p] \in {"sleeping", "waiting"} =>
              \/ req[p].timestamp = NoTimestamp
              \/ now - req[p].timestamp >= CACHE_EXPIRATION_TIME)
       /\ (pc[p] = "done" /\ last.thread = p /\ Succeeded(last.resp) =>
              \/ req[p].timestamp = NoTimestamp
              \/ now - req[p].timestamp >= CACHE_EXPIRATION_TIME)
       /\ (pc[p] = "done" /\ last.thread = p /\ last.net = 0 =>
              last.replaced = NoTimestamp /\ req[p] = NoReq)

\* a fetch that had seen an expired entry stored over a fresh one, which
\* another fetch had stored in between
C13_Witness ==
    \E p \in Threads :
       /\ pc[p] = "done" /\ last.thread = p
       /\ Succeeded(last.resp)
       /\ req[p].timestamp # NoTimestamp
       /\ now - req[p].timestamp >= CACHE_EXPIRATION_TIME
       /\ last.replaced # req[p].timestamp
       /\ now - last.replaced < CACHE_EXPIRATION_TIME

FailureKind(resp) ==
    IF resp.kind = "conn_error" THEN "Network"
    ELSE IF resp.kind # "http" THEN "none"
    ELSE IF resp.status = 429 THEN "RateLimited"
    ELSE IF RaisesForStatus(resp.status) THEN "HttpStatus"
    ELSE IF ~resp.parsable THEN "MalformedResponse"
    ELSE IF "error" \in resp.json.fields THEN "UpstreamError"
    ELSE "none"

\* what the caller of fetch_data_from_api can test without reading a message:
\* the type of the exception, or the fields of the object returned
KindOf(out) ==
    IF out.kind = "raise"
    THEN <<"raise", out.exc, {}>>
    ELSE <<"return", "", out.data.fields>>

\* C15 as stated: a fetch that failed ends in a way that differs in kind, not
\* only in message, from the way it would have ended on a failure of any of
\* the other four kinds.
C15_FailureKindsDistinct ==
    (last.net = 1 /\ FailureKind(last.resp) # "none") =>
       \A r \in Responses(last.ep) :
          FailureKind(r) \notin {"none", FailureKind(last.resp)} =>
             KindOf(FetchComplete(CACHE, last.key, r, now).out) # KindOf(last.fetch)

\* C16 as stated: a call of create_chart_image with a series of no points
\* ends in an EmptySeries error and gives no image, whatever its caller had
\* checked.
C16_EmptySeriesRejected ==
    (rcall.called /\ Len(rcall.values) = 0) =>
       rcall.raised = "EmptySeries" /\ rcall.image = NoImage

\* C17 as stated: whatever render calls have run, and however each ended, no
\* figure is left open.
C17_NoFigureLeftOpen == figures = 0

====
